---- MODULE Spec2Model ----
(***************************************************************************)
(* A model of src/src/Entity.c: one Entity record, the operations          *)
(* InitEntity, LoadEntitySprite, ResurrectEntity, SetEntitySpriteAnimation,*)
(* UpdateEntity and DrawEntity, and the two SDL collaborators they call    *)
(* (the texture loader and the renderer).                                  *)
(*                                                                         *)
(* Numbers.  The C code computes in double.  The model computes exactly in *)
(* fixed point:                                                            *)
(*   - a position or a distance is an integer number of micro-pixels       *)
(*     (PX of them make one pixel);                                        *)
(*   - a time (dDeltaTime, dFrameDuration) is an integer number of         *)
(*     centiseconds (TicksPerSecond of them make one second);              *)
(*   - dVelocityX is an integer number of pixels per second;               *)
(*   - dWorldGravitation 9.81 is held as 981 hundredths.                   *)
(* With dDeltaTime a whole number of centiseconds every product the code   *)
(* forms is a whole number of these units, so no rounding is modelled.     *)
(*                                                                         *)
(* A horizontal coordinate is a pair [hi, lo] that stands for              *)
(* hi * 2^32 pixels + lo micro-pixels: the code subtracts the uint8 width  *)
(* from the uint32 map width in unsigned arithmetic, and the difference    *)
(* wraps to 2^32 - (width - mapWidth) when the map is narrower than the    *)
(* entity.  hi counts these wraps; 2^32 pixels itself is not representable *)
(* as a single integer of the model.                                       *)
(***************************************************************************)
EXTENDS Integers, Sequences, FiniteSets, TLC

VARIABLES
    e,          \* the Entity record (struct Entity_t)
    textures,   \* live SDL textures (created by IMG_LoadTexture, not destroyed)
    nBlits,     \* number of SDL_RenderCopyEx calls issued so far
    lastBlit,   \* arguments of the most recent SDL_RenderCopyEx call
    ret,        \* return value of the last operation that returns int8_t
    lastOp,     \* name of the last operation called
    elapsed     \* sum of dDeltaTime since SetEntitySpriteAnimation (scenario clock)

vars == <<e, textures, nBlits, lastBlit, ret, lastOp, elapsed>>

\* ------------------------------------------------------------------ units

\* One pixel, in position units (micro-pixels).
PX == 1000 * 1000

\* One second, in time units (centiseconds).
TicksPerSecond == 10 * 10

\* A horizontal coordinate of n micro-pixels.
D(n) == [hi |-> 0, lo |-> n]

\* a + n micro-pixels.
DAdd(a, n) == [hi |-> a.hi, lo |-> a.lo + n]

\* a < b on horizontal coordinates.
DLess(a, b) == a.hi < b.hi \/ (a.hi = b.hi /\ a.lo < b.lo)

\* (double) of the int  0 - u8Width.
LeftBorder(ent) == D(-(ent.u8Width * PX))

\* (double) of the unsigned  u32MapWidth - u8Width : the subtraction is done in
\* uint32 and wraps when u8Width > u32MapWidth.
RightBorder(ent) ==
    IF ent.u32MapWidth >= ent.u8Width
    THEN [hi |-> 0, lo |-> (ent.u32MapWidth - ent.u8Width) * PX]
    ELSE [hi |-> 1, lo |-> (ent.u32MapWidth - ent.u8Width) * PX]

\* (int32_t) of a double of y micro-pixels: truncation toward zero, in pixels.
Int32Cast(y) == IF y >= 0 THEN y \div PX ELSE -((-y) \div PX)

\* floor() of a double of y micro-pixels, in micro-pixels.
Floor(y) == (y \div PX) * PX

\* C's a % b for b > 0: the remainder has the sign of a.
CRem(a, b) == IF a >= 0 THEN a % b ELSE -((-a) % b)

\* ------------------------------------------------------------------ flags

ENTITY_IS_DEAD       == "ENTITY_IS_DEAD"
ENTITY_IS_MOVING     == "ENTITY_IS_MOVING"
ENTITY_IS_IN_MID_AIR == "ENTITY_IS_IN_MID_AIR"
ENTITY_DIRECTION     == "ENTITY_DIRECTION"

\* u16Flags is the set of the flag bits that are set.
Flags == {ENTITY_IS_DEAD, ENTITY_IS_MOVING, ENTITY_IS_IN_MID_AIR, ENTITY_DIRECTION}

FLAG_IS_SET(flags, f) == f \in flags

NULL == "NULL"

\* ------------------------------------------------------------------ InitEntity

InitEntity(u8Width, u8Height, dPosX, dPosY, u32MapWidth) ==
    [ dAcceleration      |-> 400,
      dDeceleration      |-> 200,
      u16Flags           |-> {},
      u8Height           |-> u8Height,
      u8Width            |-> u8Width,
      u32MapWidth        |-> u32MapWidth,
      dFrameAnimationFPS |-> 20,
      u8FrameStart       |-> 0,
      u8FrameEnd         |-> 12,
      u8FrameOffsetY     |-> 0,
      dMaxVelocityX      |-> 100,
      dWorldMeterInPixel |-> 48,
      dWorldGravitation  |-> 981,
      dWorldPosX         |-> D(dPosX),
      dWorldPosY         |-> dPosY,
      pstSprite          |-> NULL,
      u8Frame            |-> 0,
      dFrameDuration     |-> 0,
      stBB               |-> [ dBottom |-> 0,
                               dLeft   |-> D(u8Height * PX),
                               dRight  |-> D(u8Width * PX),
                               dTop    |-> 0 ],
      dInitialWorldPosX  |-> D(dPosX),
      dInitialWorldPosY  |-> dPosY,
      dDistanceY         |-> 0,
      dVelocityX         |-> 0,
      dVelocityY         |-> 0 ]

\* ------------------------------------------------------------------ ResurrectEntity

\* A resurrection that also stops the entity.
ResurrectEntityStopped(ent) ==
    [ent EXCEPT !.u16Flags   = (@ \ {ENTITY_IS_DEAD}) \ {ENTITY_IS_MOVING},
                !.dWorldPosX = ent.dInitialWorldPosX,
                !.dWorldPosY = ent.dInitialWorldPosY,
                !.dVelocityX = 0,
                !.dVelocityY = 0]

ResurrectEntityOf(ent) ==
    [ent EXCEPT !.u16Flags   = (@ \ {ENTITY_IS_DEAD}) \ {ENTITY_IS_MOVING},
                !.dWorldPosX = ent.dInitialWorldPosX,
                !.dWorldPosY = ent.dInitialWorldPosY]

\* ------------------------------------------------------------------ SetEntitySpriteAnimation

SetEntitySpriteAnimationOf(ent, u8FrameStart, u8FrameEnd, u8FrameOffsetY, dFrameAnimationFPS) ==
    [ent EXCEPT !.u8FrameStart       = u8FrameStart,
                !.u8FrameEnd         = u8FrameEnd,
                !.u8FrameOffsetY     = u8FrameOffsetY,
                !.dFrameAnimationFPS = dFrameAnimationFPS]

\* ------------------------------------------------------------------ UpdateEntity

\* A box whose right edge is taken from the height.
UpdateBoundingBoxSwapped(ent) ==
    [ent EXCEPT !.stBB = [ dBottom |-> ent.dWorldPosY + ent.u8Height * PX,
                           dLeft   |-> ent.dWorldPosX,
                           dRight  |-> DAdd(ent.dWorldPosX, ent.u8Height * PX),
                           dTop    |-> ent.dWorldPosY ]]

\* "Update bounding box."
UpdateBoundingBox(ent) ==
    [ent EXCEPT !.stBB = [ dBottom |-> ent.dWorldPosY + ent.u8Height * PX,
                           dLeft   |-> ent.dWorldPosX,
                           dRight  |-> DAdd(ent.dWorldPosX, ent.u8Width * PX),
                           dTop    |-> ent.dWorldPosY ]]

\* "Increase/decrease vertical velocity if entity is in motion."
IntegrateVelocityX(ent, dDeltaTime) ==
    IF FLAG_IS_SET(ent.u16Flags, ENTITY_IS_MOVING)
    THEN [ent EXCEPT !.dVelocityX = @ + (ent.dAcceleration * dDeltaTime) \div TicksPerSecond]
    ELSE [ent EXCEPT !.dVelocityX = @ - (ent.dDeceleration * dDeltaTime) \div TicksPerSecond]

\* Limits that forget the floor at 0.
LimitVelocityXCeilingOnly(ent) ==
    IF ent.dVelocityX >= ent.dMaxVelocityX
    THEN [ent EXCEPT !.dVelocityX = ent.dMaxVelocityX]
    ELSE ent

\* "Set vertical velocity limits."
LimitVelocityX(ent) ==
    LET a == IF ent.dVelocityX >= ent.dMaxVelocityX
             THEN [ent EXCEPT !.dVelocityX = ent.dMaxVelocityX]
             ELSE ent
    IN  IF a.dVelocityX < 0 THEN [a EXCEPT !.dVelocityX = 0] ELSE a

\* "Set horizontal entity position."
SetHorizontalPosition(ent, dDeltaTime) ==
    LET dx == ent.dVelocityX * dDeltaTime * (PX \div TicksPerSecond)
    IN  IF ent.dVelocityX > 0
        THEN IF FLAG_IS_SET(ent.u16Flags, ENTITY_DIRECTION)
             THEN [ent EXCEPT !.dWorldPosX = DAdd(@, -dx)]
             ELSE [ent EXCEPT !.dWorldPosX = DAdd(@, dx)]
        ELSE ent

\* The correction with an if in place of the while.
CorrectYOnce(y) ==
    IF 0 # CRem(Int32Cast(y), 8)
    THEN Floor(y) - PX
    ELSE y

\* "Experimental y-coordinate correction.": the while loop.
RECURSIVE CorrectY(_)
CorrectY(y) ==
    IF 0 # CRem(Int32Cast(y), 8)
    THEN CorrectY(Floor(y) - PX)
    ELSE y

\* "Apply gravity."
ApplyGravity(ent, dDeltaTime) ==
    IF FLAG_IS_SET(ent.u16Flags, ENTITY_IS_IN_MID_AIR)
    THEN LET \* dG in hundredths of a pixel per second^2
             dG   == ent.dWorldMeterInPixel * ent.dWorldGravitation
             dist == dG * dDeltaTime * dDeltaTime
                         * ((PX \div 100) \div (TicksPerSecond * TicksPerSecond))
         IN  [ent EXCEPT !.dDistanceY = dist,
                         !.dVelocityY = @ + dist,
                         !.dWorldPosY = @ + (ent.dVelocityY + dist)]
    ELSE [ent EXCEPT !.dWorldPosY = CorrectY(@)]

\* "Connect left and right map border and vice versa.": the first if.
ConnectLeftBorder(ent) ==
    IF DLess(ent.dWorldPosX, LeftBorder(ent))
    THEN [ent EXCEPT !.dWorldPosX = RightBorder(ent)]
    ELSE ent

\* "Connect left and right map border and vice versa.": the second if.
ConnectRightBorder(ent) ==
    IF DLess(RightBorder(ent), ent.dWorldPosX)
    THEN [ent EXCEPT !.dWorldPosX = LeftBorder(ent)]
    ELSE ent

\* The comparison with >= in place of >.
FrameDueInclusive(dur, fps) ==
    IF fps > 0 THEN dur * fps >= TicksPerSecond
    ELSE IF fps = 0 THEN FALSE
    ELSE dur * fps <= TicksPerSecond

\* dFrameDuration > 1 / dFrameAnimationFPS.  1 / 0.0 is +infinity, which no
\* finite duration exceeds; a negative rate gives a negative bound.
FrameDue(dur, fps) ==
    IF fps > 0 THEN dur * fps > TicksPerSecond
    ELSE IF fps = 0 THEN FALSE
    ELSE dur * fps < TicksPerSecond

\* The frame update without "Loop frame animation."
UpdateFrameNoLoop(ent, dDeltaTime) ==
    LET a == [ent EXCEPT !.dFrameDuration = @ + dDeltaTime]
        b == IF a.u8Frame < a.u8FrameStart
             THEN [a EXCEPT !.u8Frame = a.u8FrameStart]
             ELSE a
    IN  IF FrameDue(b.dFrameDuration, b.dFrameAnimationFPS)
        THEN [b EXCEPT !.u8Frame = (@ + 1) % 256, !.dFrameDuration = 0]
        ELSE b

\* "Update frame." and "Loop frame animation."
UpdateFrame(ent, dDeltaTime) ==
    LET a == [ent EXCEPT !.dFrameDuration = @ + dDeltaTime]
        b == IF a.u8Frame < a.u8FrameStart
             THEN [a EXCEPT !.u8Frame = a.u8FrameStart]
             ELSE a
        c == IF FrameDue(b.dFrameDuration, b.dFrameAnimationFPS)
             THEN [b EXCEPT !.u8Frame = (@ + 1) % 256, !.dFrameDuration = 0]
             ELSE b
    IN  IF c.u8Frame >= c.u8FrameEnd
        THEN [c EXCEPT !.u8Frame = c.u8FrameStart]
        ELSE c

\* The update with the bounding box refreshed last, from the new position.
UpdateEntityBoxLast(ent, dDeltaTime) ==
    UpdateBoundingBox(
      UpdateFrame(
        ConnectRightBorder(
          ConnectLeftBorder(
            ApplyGravity(
              SetHorizontalPosition(
                LimitVelocityX(IntegrateVelocityX(ent, dDeltaTime)),
                dDeltaTime),
              dDeltaTime))),
        dDeltaTime))

UpdateEntityOf(ent, dDeltaTime) ==
    UpdateFrame(
      ConnectRightBorder(
        ConnectLeftBorder(
          ApplyGravity(
            SetHorizontalPosition(
              LimitVelocityX(
                IntegrateVelocityX(
                  UpdateBoundingBox(ent),
                  dDeltaTime)),
              dDeltaTime),
            dDeltaTime))),
      dDeltaTime)

\* ------------------------------------------------------------------ bounds and inputs

\* Largest |dWorldPosY| and dVelocityY explored, in pixels.
MaxPosY == 64

\* Largest dFrameDuration explored, in centiseconds (a rate of 0 never resets it).
MaxFrameDuration == 30

\* Largest number of SDL_RenderCopyEx calls explored.
MaxBlits == 2

\* Longest scenario clock explored, in centiseconds.
MaxElapsed == 60

\* Largest |dWorldPosX| explored, in pixels, apart from the wraps.
MaxPosX == 64

\* Largest |dPosY| InitEntity is given in the grounded specification, in pixels.
MaxStartY == 20

\* Texture handles IMG_LoadTexture can return.
TextureHandles == {"texA", "texB"}

\* Camera positions, in micro-pixels.
Cameras == {0, PX \div 2}

\* ------------------------------------------------------------------ operations

\* The state right after InitEntity returned ent.
Created(ent) ==
    /\ e = ent
    /\ textures = {}
    /\ nBlits = 0
    /\ lastBlit = NULL
    /\ ret = 0
    /\ lastOp = "InitEntity"
    /\ elapsed = 0

\* IMG_LoadTexture returns a fresh handle, or NULL on failure.
LoadEntitySprite ==
    LET kept == textures \ {e.pstSprite}
    IN  \E tex \in (TextureHandles \ kept) \cup {NULL} :
          /\ textures' = kept \cup ({tex} \ {NULL})
          /\ e' = [e EXCEPT !.pstSprite = tex]
          /\ ret' = IF tex = NULL THEN -1 ELSE 0
          /\ lastOp' = "LoadEntitySprite"
          /\ UNCHANGED <<nBlits, lastBlit, elapsed>>

ResurrectEntity ==
    /\ e' = ResurrectEntityOf(e)
    /\ lastOp' = "ResurrectEntity"
    /\ UNCHANGED <<textures, nBlits, lastBlit, ret, elapsed>>

SetEntitySpriteAnimation(u8FrameStart, u8FrameEnd, u8FrameOffsetY, dFrameAnimationFPS) ==
    /\ e' = SetEntitySpriteAnimationOf(e, u8FrameStart, u8FrameEnd,
                                       u8FrameOffsetY, dFrameAnimationFPS)
    /\ lastOp' = "SetEntitySpriteAnimation"
    /\ elapsed' = 0
    /\ UNCHANGED <<textures, nBlits, lastBlit, ret>>

\* The part of the state space explored: the code itself has no such limits.
Explored(ent) ==
    /\ ent.dWorldPosX.lo <= MaxPosX * PX
    /\ ent.dWorldPosX.lo >= -(MaxPosX * PX)
    /\ ent.dWorldPosY <= MaxPosY * PX
    /\ ent.dWorldPosY >= -(MaxPosY * PX)
    /\ ent.dVelocityY <= MaxPosY * PX
    /\ ent.dFrameDuration <= MaxFrameDuration

UpdateEntity(dDeltaTime) ==
    /\ Explored(UpdateEntityOf(e, dDeltaTime))
    /\ e' = UpdateEntityOf(e, dDeltaTime)
    /\ lastOp' = "UpdateEntity"
    /\ UNCHANGED <<textures, nBlits, lastBlit, ret>>

\* (int) of the double dRenderPosX.  A value outside the range of int (a
\* position past a wrapped map border) makes the conversion undefined: any int.
RenderX(ent, dCameraPosX) ==
    IF ent.dWorldPosX.hi = 0
    THEN {Int32Cast(ent.dWorldPosX.lo - dCameraPosX)}
    ELSE {-2147483647, 0, 2147483647}

\* The source and destination rectangles and the flip of DrawEntity.
BlitOf(ent, x, dCameraPosY) ==
    [ texture |-> ent.pstSprite,
      stSrc   |-> [ x |-> ent.u8Frame * ent.u8Width,
                    y |-> ent.u8FrameOffsetY * ent.u8Height,
                    w |-> ent.u8Width,
                    h |-> ent.u8Height ],
      stDst   |-> [ x |-> x,
                    y |-> Int32Cast(ent.dWorldPosY - dCameraPosY),
                    w |-> ent.u8Width,
                    h |-> ent.u8Height ],
      s8Flip  |-> IF FLAG_IS_SET(ent.u16Flags, ENTITY_DIRECTION)
                  THEN "SDL_FLIP_HORIZONTAL" ELSE "SDL_FLIP_NONE" ]

\* The entity DrawEntity leaves behind.
DrawEntityOf(ent) == ent

\* A draw that does not look at pstSprite.
BlitsIssuedUnchecked(ent) == 1

\* The number of SDL_RenderCopyEx calls one DrawEntity call issues on ent.
BlitsIssued(ent) == IF ent.pstSprite = NULL THEN 0 ELSE 1

DrawEntity(dCameraPosX, dCameraPosY) ==
    /\ nBlits + BlitsIssued(e) <= MaxBlits
    /\ e' = DrawEntityOf(e)
    /\ nBlits' = nBlits + BlitsIssued(e)
    /\ \E x \in RenderX(e, dCameraPosX) :
         lastBlit' = IF BlitsIssued(e) = 0 THEN lastBlit
                     ELSE BlitOf(e, x, dCameraPosY)
    /\ IF e.pstSprite = NULL
       THEN ret' = -1
       ELSE ret' \in {0, -1}     \* SDL_RenderCopyEx succeeds or fails
    /\ lastOp' = "DrawEntity"
    /\ UNCHANGED <<textures, elapsed>>

\* The flag control surface: the caller sets and clears bits of u16Flags
\* between frames.
SetFlag(f) ==
    /\ f \notin e.u16Flags
    /\ e' = [e EXCEPT !.u16Flags = @ \cup {f}]
    /\ lastOp' = "SetFlag"
    /\ UNCHANGED <<textures, nBlits, lastBlit, ret, elapsed>>

ClearFlag(f) ==
    /\ f \in e.u16Flags
    /\ e' = [e EXCEPT !.u16Flags = @ \ {f}]
    /\ lastOp' = "ClearFlag"
    /\ UNCHANGED <<textures, nBlits, lastBlit, ret, elapsed>>

\* ------------------------------------------------------------------ specifications

\* Position, velocity, animation and rendering are independent parts of the
\* entity, and their product is far too large to enumerate.  Each specification
\* below is the program under one kind of caller: every operation it offers is
\* the whole handler defined above, and the caller's choice of operations and
\* arguments decides which part of the entity varies.

\* The lifecycle: a created entity whose caller moves it, kills it, resurrects
\* it and binds sprites to it.
Init == Created(InitEntity(2, 3, PX, 17 * PX, 8))

Update == \E dt \in {0, 25} : UpdateEntity(dt) /\ UNCHANGED elapsed

Toggle == \E f \in Flags : SetFlag(f) \/ ClearFlag(f)

Next ==
    \/ LoadEntitySprite
    \/ ResurrectEntity
    \/ Update
    \/ Toggle

Spec == Init /\ [][Next]_vars

\* Animation: the caller changes the animation window and rate between updates.
Animations ==
    { <<0, 4>>, <<2, 3>>, <<5, 7>>, <<254, 255>> } \X {0, 1} \X {0, 10, 20}

Animate ==
    \E a \in Animations : SetEntitySpriteAnimation(a[1][1], a[1][2], a[2], a[3])

UpdateAnim == \E dt \in {0, 3, 5, 10} : UpdateEntity(dt) /\ UNCHANGED elapsed

NextAnim ==
    \/ Animate
    \/ UpdateAnim
    \/ ResurrectEntity

SpecAnim == Init /\ [][NextAnim]_vars

\* The animation cycle: InitEntity, SetEntitySpriteAnimation(0, 4, 0, 10), then
\* updates; elapsed is the sum of their dDeltaTime.
Configure ==
    /\ lastOp = "InitEntity"
    /\ SetEntitySpriteAnimation(0, 4, 0, 10)

Tick ==
    /\ lastOp # "InitEntity"
    /\ \E dt \in {3, 10, 12, 25} :
         /\ elapsed + dt <= MaxElapsed
         /\ UpdateEntity(dt)
         /\ elapsed' = elapsed + dt

NextCycle ==
    \/ Configure
    \/ Tick

SpecCycle == Init /\ [][NextCycle]_vars

\* Drawing: the caller binds sprites, turns the entity and draws it.
Draw == \E cx \in Cameras : DrawEntity(cx, 0)

Turn == SetFlag(ENTITY_DIRECTION) \/ ClearFlag(ENTITY_DIRECTION)

UpdateDraw == UpdateEntity(25) /\ UNCHANGED elapsed

NextDraw ==
    \/ LoadEntitySprite
    \/ Draw
    \/ Turn
    \/ UpdateDraw

SpecDraw == Init /\ [][NextDraw]_vars

\* Horizontal wraparound: entities of every width on maps wider and narrower
\* than they are, for MaxElapsed centiseconds.
InitWrap ==
    \E w \in {2, 3}, x \in {-4, 0, 7}, m \in {1, 8} :
        Created(InitEntity(w, 3, x * PX, 16 * PX, m))

Walk == SetFlag(ENTITY_IS_MOVING) \/ ClearFlag(ENTITY_IS_MOVING)

\* An update that advances the scenario clock.
UpdateTimed(dt) ==
    /\ elapsed + dt <= MaxElapsed
    /\ UpdateEntity(dt)
    /\ elapsed' = elapsed + dt

UpdateWrap == \E dt \in {0, 10, 25} : UpdateTimed(dt)

NextWrap ==
    \/ UpdateWrap
    \/ Turn
    \/ Walk

SpecWrap == InitWrap /\ [][NextWrap]_vars

\* Horizontal velocity: the caller has stored any velocity in dVelocityX.
InitVelocity ==
    \E v \in {-130, -1, 0, 60, 101, 250}, f \in SUBSET {ENTITY_IS_MOVING} :
        Created([InitEntity(2, 3, PX, 16 * PX, 8) EXCEPT !.dVelocityX = v, !.u16Flags = f])

UpdateVelocity == \E dt \in {0, 10, 25} : UpdateTimed(dt)

NextVelocity ==
    \/ UpdateVelocity
    \/ Walk

SpecVelocity == InitVelocity /\ [][NextVelocity]_vars

\* A grounded entity created at any height, in half pixels.
InitGround ==
    \E h \in (-2 * MaxStartY) .. (2 * MaxStartY) :
        Created(InitEntity(2, 3, PX, h * (PX \div 2), 8))

UpdateGround == \E dt \in {0, 25} : UpdateEntity(dt) /\ UNCHANGED elapsed

NextGround ==
    \/ UpdateGround
    \/ ResurrectEntity

SpecGround == InitGround /\ [][NextGround]_vars

\* ------------------------------------------------------------------ claims

\* The box of an entity of extents w, h whose top-left corner is at (x, y).
BoxAt(x, y, w, h) ==
    [ dBottom |-> y + h * PX,
      dLeft   |-> x,
      dRight  |-> DAdd(x, w * PX),
      dTop    |-> y ]

\* The box of ent's current position.
BoxOf(ent) == BoxAt(ent.dWorldPosX, ent.dWorldPosY, ent.u8Width, ent.u8Height)

\* The greatest multiple of 8 pixels that is <= y.
FloorTo8(y) == (y \div (8 * PX)) * (8 * PX)

C2_PosXInMap ==
    lastOp = "UpdateEntity" =>
        /\ e.dWorldPosX.hi = 0
        /\ e.dWorldPosX.lo >= -(e.u8Width * PX)
        /\ e.dWorldPosX.lo <= (e.u32MapWidth - e.u8Width) * PX

\* C3 (SpecVelocity): right after every UpdateEntity call
\* 0 <= dVelocityX <= dMaxVelocityX, whatever velocity the entity started with.
C3_VelocityInRange ==
    lastOp = "UpdateEntity" =>
        /\ 0 <= e.dVelocityX
        /\ e.dVelocityX <= e.dMaxVelocityX

\* C3 witness: updates of zero duration only (the clock stands at 0) have left
\* the entity at the ceiling: it started above it (101 or 250) and was clamped.
C3_Witness ==
    /\ lastOp = "UpdateEntity"
    /\ elapsed = 0
    /\ e.dVelocityX = e.dMaxVelocityX

\* C4 (Spec): when an UpdateEntity call returns, the bounding box is the box of
\* the position the entity had on entry to the call, so its extents are the
\* entity's width and height.
C4_BoxOfEntryPosition ==
    [][ lastOp' = "UpdateEntity" =>
          /\ e'.stBB.dTop    = e.dWorldPosY
          /\ e'.stBB.dLeft   = e.dWorldPosX
          /\ e'.stBB.dRight  = DAdd(e.dWorldPosX, e.u8Width * PX)
          /\ e'.stBB.dBottom = e.dWorldPosY + e.u8Height * PX
          /\ e'.stBB.dRight.hi = e'.stBB.dLeft.hi
          /\ e'.stBB.dRight.lo - e'.stBB.dLeft.lo = e'.u8Width * PX
          /\ e'.stBB.dBottom - e'.stBB.dTop = e'.u8Height * PX ]_vars

\* C4 witness: an update has moved the entity along both axes, so the box it
\* left is not the box of the position the entity has now.
C4_Witness ==
    /\ lastOp = "UpdateEntity"
    /\ e.stBB.dLeft # e.dWorldPosX
    /\ e.stBB.dTop # e.dWorldPosY

\* C5 (Spec), as claimed: right after every UpdateEntity call the bounding box
\* is the box of the position the entity holds in that state.
C5_BoxOfExitPosition ==
    lastOp = "UpdateEntity" => e.stBB = BoxOf(e)

\* C5 (Spec), amended: right after every UpdateEntity call the bounding box has
\* the entity's width and height as extents, and it is the box of the position
\* the entity holds in that state whenever the call did not move the entity.
C5_BoxOfExitPositionIfUnmoved ==
    [][ lastOp' = "UpdateEntity" =>
          /\ e'.stBB.dRight = DAdd(e'.stBB.dLeft, e'.u8Width * PX)
          /\ e'.stBB.dBottom = e'.stBB.dTop + e'.u8Height * PX
          /\ (e'.dWorldPosX = e.dWorldPosX /\ e'.dWorldPosY = e.dWorldPosY
                => e'.stBB = BoxOf(e')) ]_vars

\* C5 witness: an update of an entity at rest on the grid: the box is the box
\* of the position it holds, away from the origin.
C5_Witness ==
    /\ lastOp = "UpdateEntity"
    /\ e.stBB = BoxOf(e)
    /\ e.dVelocityX = 0
    /\ e.dWorldPosY = 16 * PX

\* C6 (Spec), as claimed: InitEntity returns an entity whose bounding box is
\* the box of the initial position, with zero velocities, no flag, no sprite,
\* frame 0 and the animation window [0, 12) at 20 frames per second.
C6_CreatedBox ==
    lastOp = "InitEntity" =>
        /\ e.stBB = BoxOf(e)
        /\ e.dVelocityX = 0
        /\ e.dVelocityY = 0
        /\ e.u16Flags = {}
        /\ e.pstSprite = NULL
        /\ e.u8Frame = 0
        /\ e.u8FrameStart = 0
        /\ e.u8FrameEnd = 12
        /\ e.dFrameAnimationFPS = 20

\* C7 (Spec): ResurrectEntity puts the entity at its initial position, clears
\* ENTITY_IS_DEAD and ENTITY_IS_MOVING, and changes nothing else: no other
\* flag, no other field of the entity, no texture, nothing on the renderer.
C7_ResurrectFrame ==
    [][ lastOp' = "ResurrectEntity" =>
          /\ e'.dWorldPosX = e.dInitialWorldPosX
          /\ e'.dWorldPosY = e.dInitialWorldPosY
          /\ e'.u16Flags = e.u16Flags \ {ENTITY_IS_DEAD, ENTITY_IS_MOVING}
          /\ \A f \in DOMAIN e \ {"dWorldPosX", "dWorldPosY", "u16Flags"} :
                e'[f] = e[f]
          /\ UNCHANGED <<textures, nBlits, lastBlit>> ]_vars

\* C7 witness: a resurrected entity that is still falling and still rolling,
\* faces left, is past frame 0, has a sprite and a box away from its position.
C7_Witness ==
    /\ lastOp = "ResurrectEntity"
    /\ e.dVelocityX > 0
    /\ e.dVelocityY > 0
    /\ e.u8Frame > 0
    /\ e.pstSprite # NULL
    /\ e.stBB # BoxOf(e)
    /\ ENTITY_IS_IN_MID_AIR \in e.u16Flags
    /\ ENTITY_DIRECTION \in e.u16Flags

\* C8 (SpecGround), as claimed: an update of a grounded entity leaves
\* dWorldPosY at the greatest multiple of 8 that is <= the height it started
\* from, whole or fractional, positive or negative.
C8_SnapsToFloor8 ==
    lastOp = "UpdateEntity" => e.dWorldPosY = FloorTo8(e.dInitialWorldPosY)

\* C8 (SpecGround), amended: an update of a grounded entity at a whole number
\* of pixels leaves dWorldPosY at the greatest multiple of 8 that is <= it; at
\* any height, whole or fractional, the loop ends, at a height that is not
\* above the starting one and whose integer part is a multiple of 8; and the
\* update after an update leaves dWorldPosY as it is.
C8_SnapsWholeToFloor8 ==
    [][ (lastOp' = "UpdateEntity" /\ ENTITY_IS_IN_MID_AIR \notin e.u16Flags) =>
          /\ (e.dWorldPosY % PX = 0 => e'.dWorldPosY = FloorTo8(e.dWorldPosY))
          /\ e'.dWorldPosY <= e.dWorldPosY
          /\ CRem(Int32Cast(e'.dWorldPosY), 8) = 0
          /\ (lastOp = "UpdateEntity" => e'.dWorldPosY = e.dWorldPosY) ]_vars

\* C8 witness: the entity created at height 17 stands at 16 after an update.
C8_Witness ==
    /\ lastOp = "UpdateEntity"
    /\ e.dInitialWorldPosY = 17 * PX
    /\ e.dWorldPosY = 16 * PX

C10_DrawEffect ==
    [][ lastOp' = "DrawEntity" =>
          /\ e' = e
          /\ textures' = textures
          /\ (e.pstSprite = NULL =>
                ret' = -1 /\ nBlits' = nBlits /\ lastBlit' = lastBlit)
          /\ (e.pstSprite # NULL =>
                nBlits' = nBlits + 1 /\ lastBlit'.texture = e.pstSprite) ]_vars

\* C10 witness: a draw has failed on an entity that lost its sprite to a
\* failed LoadEntitySprite, after a draw that went through.
C10_Witness ==
    /\ lastOp = "DrawEntity"
    /\ e.pstSprite = NULL
    /\ ret = -1
    /\ nBlits = 1

====
